---- MODULE Spec2Model ----
(***************************************************************************)
(* Model of drivers/watchdog/bflb_wdt.c: the BL808 watchdog driver.        *)
(*                                                                         *)
(* A C `unsigned int` / `uint32_t` is a pair <<hi, lo>> of 16-bit halves,  *)
(* so that 32-bit wrap-around is computed and not assumed away.            *)
(* The register block is a function from byte offsets to 32-bit words.     *)
(* Every register access a handler makes is appended to `trace`, the       *)
(* access log of the most recent operation.                                *)
(***************************************************************************)
EXTENDS Integers, Sequences, FiniteSets, TLC

VARIABLES
    regs,        \* register block: offset -> word
    key,         \* write-protect latch of the hardware: "locked", "half", "open"
    wdd,         \* struct watchdog_device: timeout, max_timeout, min_timeout
    phase,       \* "Unconfigured", "Stopped" or "Running"
    lastOp,      \* the most recent step
    arg,         \* the argument of the most recent operation (set_timeout)
    ret,         \* the value the most recent operation returned
    trace,       \* the register accesses of the most recent operation
    resetFired,  \* the watchdog has reset the device
    procs,       \* the callers: the operation each is in and how far it is
    serialised,  \* the callers are let in one at a time
    lostWrite    \* a caller's protected write met a locked register block

concVars == <<procs, serialised, lostWrite>>

vars == <<regs, key, wdd, phase, lastOp, arg, ret, trace, resetFired,
          procs, serialised, lostWrite>>

----------------------------------------------------------------------------
(* 32-bit words                                                            *)

Half == 2^16

U32(n) == <<n \div Half, n % Half>>

Hi(w) == w[1]
Lo(w) == w[2]

RECURSIVE BitAnd(_, _)
BitAnd(a, b) ==
    IF a = 0 \/ b = 0 THEN 0
    ELSE (a % 2) * (b % 2) + 2 * BitAnd(a \div 2, b \div 2)

RECURSIVE BitOr(_, _)
BitOr(a, b) ==
    IF a = 0 THEN b
    ELSE IF b = 0 THEN a
    ELSE (IF a % 2 = 1 \/ b % 2 = 1 THEN 1 ELSE 0) + 2 * BitOr(a \div 2, b \div 2)

And32(x, y) == <<BitAnd(Hi(x), Hi(y)), BitAnd(Lo(x), Lo(y))>>
Or32(x, y)  == <<BitOr(Hi(x), Hi(y)), BitOr(Lo(x), Lo(y))>>
Not32(x)    == <<(Half - 1) - Hi(x), (Half - 1) - Lo(x)>>

Ge32(x, y) == Hi(x) > Hi(y) \/ (Hi(x) = Hi(y) /\ Lo(x) >= Lo(y))

\* x * k modulo 2^32, for a small multiplier k
Mul32(x, k) ==
    LET lo == Lo(x) * k
        hi == Hi(x) * k + (lo \div Half)
    IN  <<hi % Half, lo % Half>>

\* x / k, truncating, for a small divisor k
Div32(x, k) ==
    <<Hi(x) \div k, ((Hi(x) % k) * Half + Lo(x)) \div k>>

\* x - y modulo 2^32
Sub32(x, y) ==
    LET borrow == IF Lo(x) < Lo(y) THEN 1 ELSE 0
    IN  <<(Hi(x) - Hi(y) - borrow + Half) % Half, (Lo(x) - Lo(y) + Half) % Half>>

\* truncation of a word to a 16-bit access
Trunc16(x) == <<0, Lo(x)>>

----------------------------------------------------------------------------
(* Constants of the driver                                                 *)

BFLB_INT_TICKS_PER_SEC == 1024
BFLB_TICK_DIV == 256
BFLB_TICKS_PER_SEC == BFLB_INT_TICKS_PER_SEC \div BFLB_TICK_DIV
BFLB_MAX_SECS == 65535 \div BFLB_TICKS_PER_SEC

BFLB_DEFAULT_TIMEOUT == 60

BFLB_REG_WFAR == 156
BFLB_VAL_WFAR == 47802

BFLB_REG_WSAR == 160
BFLB_VAL_WSAR == 60176

BFLB_REG_WVR == 108
BFLB_REG_WCR == 152
BFLB_VAL_WCR == 1

BFLB_REG_WMER == 100
BFLB_VAL_WE == 1
BFLB_VAL_WRIE == 2

BFLB_REG_TCCR == 0
BFLB_MASK_CS_WDT == 3840
BFLB_VAL_CS_1K == 512

BFLB_REG_TCDR == 188
BFLB_MASK_TCDR == <<65280, 0>>
BFLB_VAL_TCDR == <<65280, 0>>

BFLB_REG_WMR == 104

KeyRegs == {BFLB_REG_WFAR, BFLB_REG_WSAR}
ProtectedRegs ==
    {BFLB_REG_WMER, BFLB_REG_WMR, BFLB_REG_WCR, BFLB_REG_TCCR, BFLB_REG_TCDR}
Registers == ProtectedRegs \cup {BFLB_REG_WVR}

----------------------------------------------------------------------------
(* The register block as the hardware behaves                              *)

\* The latch after a write: the two key writes in order open it, anything
\* else closes it, and one protected write uses the opening up.
KeyAfter(k, reg, val) ==
    IF reg = BFLB_REG_WFAR
    THEN (IF val = U32(BFLB_VAL_WFAR) THEN "half" ELSE "locked")
    ELSE IF reg = BFLB_REG_WSAR
    THEN (IF k = "half" /\ val = U32(BFLB_VAL_WSAR) THEN "open" ELSE "locked")
    ELSE "locked"

\* The registers after a write: a protected write lands only while the latch
\* is open; a landed write of the reset bit clears the elapsed counter.
RegsAfter(r, k, reg, val) ==
    IF reg \in ProtectedRegs /\ k = "open"
    THEN IF reg = BFLB_REG_WCR /\ Lo(val) % 2 = 1
         THEN [r EXCEPT ![reg] = val, ![BFLB_REG_WVR] = U32(0)]
         ELSE [r EXCEPT ![reg] = val]
    ELSE r

\* One write access of the given width on the bus.
BusWrite(io, val, reg, width) ==
    [regs  |-> RegsAfter(io.regs, io.key, reg, val),
     key   |-> KeyAfter(io.key, reg, val),
     trace |-> Append(io.trace,
                 [op |-> "write", reg |-> reg, val |-> val, width |-> width,
                  open |-> io.key = "open"])]

\* One read access of the given width on the bus.
BusRead(io, val, reg, width) ==
    [io EXCEPT !.trace =
        Append(io.trace,
               [op |-> "read", reg |-> reg, val |-> val, width |-> width,
                open |-> io.key = "open"])]

----------------------------------------------------------------------------
(* The I/O accessors the driver calls                                      *)

writew(io, val, reg) == BusWrite(io, Trunc16(val), reg, 16)
writel(io, val, reg) == BusWrite(io, val, reg, 32)

readw_val(io, reg) == Trunc16(io.regs[reg])
readl_val(io, reg) == io.regs[reg]

readw(io, reg) == BusRead(io, readw_val(io, reg), reg, 16)
readl(io, reg) == BusRead(io, readl_val(io, reg), reg, 32)

----------------------------------------------------------------------------
(* The handlers                                                            *)

IO == [regs |-> regs, key |-> key, trace |-> <<>>]

\* the two key writes in the wrong order
Unlock_Reversed(io) ==
    writew(writew(io, U32(BFLB_VAL_WSAR), BFLB_REG_WSAR),
           U32(BFLB_VAL_WFAR), BFLB_REG_WFAR)

bflb_unlock_watchdog(io) ==
    writew(writew(io, U32(BFLB_VAL_WFAR), BFLB_REG_WFAR),
           U32(BFLB_VAL_WSAR), BFLB_REG_WSAR)

\* reg_val = BFLB_VAL_WCR
PingVal_Assign(reg_val) == U32(BFLB_VAL_WCR)

\* reg_val |= BFLB_VAL_WCR
PingVal(reg_val) == Or32(reg_val, U32(BFLB_VAL_WCR))

bflb_wdt_ping(io, w) ==
    LET io1     == bflb_unlock_watchdog(io)
        reg_val == readl_val(io1, BFLB_REG_WCR)
        io2     == readl(io1, BFLB_REG_WCR)
        io3     == writel(io2, PingVal(reg_val), BFLB_REG_WCR)
    IN  [io |-> io3, wdd |-> w, ret |-> U32(0)]

\* timeout_ticks = wdd->timeout * BFLB_INT_TICKS_PER_SEC
TimeoutTicks_Undivided(w) == Mul32(w.timeout, BFLB_INT_TICKS_PER_SEC)

\* timeout_ticks = wdd->timeout * BFLB_TICKS_PER_SEC
TimeoutTicks(w) == Mul32(w.timeout, BFLB_TICKS_PER_SEC)

\* the unlock left out
UpdateTimeoutReg_NoUnlock(io, w) ==
    writew(io, TimeoutTicks(w), BFLB_REG_WMR)

bflb_wdt_update_timeout_reg(io, w) ==
    LET io1 == bflb_unlock_watchdog(io)
    IN  writew(io1, TimeoutTicks(w), BFLB_REG_WMR)

\* the clamp left out
ClampTimeout_None(timeout, w) == timeout

\* if (timeout >= wdd->max_timeout) timeout = wdd->max_timeout;
ClampTimeout(timeout, w) ==
    IF Ge32(timeout, w.max_timeout) THEN w.max_timeout ELSE timeout

\* an out-of-range request refused with -EINVAL instead of clamped
SetTimeout_Refuses(io, w, timeout) ==
    IF Ge32(timeout, w.max_timeout)
    THEN [io |-> io, wdd |-> w, ret |-> <<65535, 65514>>]
    ELSE LET w1 == [w EXCEPT !.timeout = timeout]
         IN  [io |-> bflb_wdt_update_timeout_reg(io, w1), wdd |-> w1,
              ret |-> U32(0)]

bflb_wdt_set_timeout(io, w, timeout) ==
    LET w1 == [w EXCEPT !.timeout = ClampTimeout(timeout, w)]
    IN  [io |-> bflb_wdt_update_timeout_reg(io, w1), wdd |-> w1, ret |-> U32(0)]

\* reg_val += BFLB_VAL_WE
StartVal_Add(reg_val) ==
    IF Lo(reg_val) + BFLB_VAL_WE < Half
    THEN <<Hi(reg_val), Lo(reg_val) + BFLB_VAL_WE>>
    ELSE <<(Hi(reg_val) + 1) % Half, (Lo(reg_val) + BFLB_VAL_WE) % Half>>

\* reg_val |= BFLB_VAL_WRIE
StartVal_WrongBit(reg_val) == Or32(reg_val, U32(BFLB_VAL_WRIE))

\* reg_val = BFLB_VAL_WE
StartVal_Assign(reg_val) == U32(BFLB_VAL_WE)

\* reg_val |= BFLB_VAL_WE
StartVal(reg_val) == Or32(reg_val, U32(BFLB_VAL_WE))

bflb_wdt_start(io, w) ==
    LET io1     == bflb_unlock_watchdog(io)
        reg_val == readl_val(io1, BFLB_REG_WMER)
        io2     == readl(io1, BFLB_REG_WMER)
        io3     == writel(io2, StartVal(reg_val), BFLB_REG_WMER)
    IN  [io |-> io3, wdd |-> w, ret |-> U32(0)]

\* reg_val &= BFLB_VAL_WE
StopVal_NoComplement(reg_val) == And32(reg_val, U32(BFLB_VAL_WE))

\* reg_val &= ~BFLB_VAL_WE
StopVal(reg_val) == And32(reg_val, Not32(U32(BFLB_VAL_WE)))

bflb_wdt_stop(io, w) ==
    LET io1     == bflb_unlock_watchdog(io)
        reg_val == readl_val(io1, BFLB_REG_WMER)
        io2     == readl(io1, BFLB_REG_WMER)
        io3     == writel(io2, StopVal(reg_val), BFLB_REG_WMER)
    IN  [io |-> io3, wdd |-> w, ret |-> U32(0)]

\* remaining_seconds = wdd->max_timeout - ticks, the division left out
RemainingSeconds_NoDivide(ticks, w) == Sub32(w.max_timeout, ticks)

\* remaining_seconds = wdd->timeout - used_seconds
RemainingSeconds_OfTimeout(ticks, w) ==
    Sub32(w.timeout, Div32(ticks, BFLB_TICKS_PER_SEC))

\* used_seconds = ticks / BFLB_TICKS_PER_SEC;
\* remaining_seconds = wdd->max_timeout - used_seconds
RemainingSeconds(ticks, w) ==
    Sub32(w.max_timeout, Div32(ticks, BFLB_TICKS_PER_SEC))

\* an unlock issued before the read of the counter
Timeleft_Unlocks(io, w) ==
    LET io1   == bflb_unlock_watchdog(io)
        ticks == readw_val(io1, BFLB_REG_WVR)
        io2   == readw(io1, BFLB_REG_WVR)
    IN  [io |-> io2, wdd |-> w, ret |-> RemainingSeconds(ticks, w)]

bflb_wdt_timeleft(io, w) ==
    LET ticks == readw_val(io, BFLB_REG_WVR)
        io1   == readw(io, BFLB_REG_WVR)
    IN  [io |-> io1, wdd |-> w, ret |-> RemainingSeconds(ticks, w)]

\* reg_val |= BFLB_VAL_WRIE, the enable bit left as read
ProbeModeVal_NoDisable(reg_val) == Or32(reg_val, U32(BFLB_VAL_WRIE))

\* reg_val &= ~BFLB_VAL_WE; reg_val |= BFLB_VAL_WRIE
ProbeModeVal(reg_val) ==
    Or32(And32(reg_val, Not32(U32(BFLB_VAL_WE))), U32(BFLB_VAL_WRIE))

\* reg_val &= ~BFLB_MASK_CS_WDT; reg_val |= BFLB_VAL_CS_1K
ProbeClockVal(reg_val) ==
    Or32(And32(reg_val, Not32(U32(BFLB_MASK_CS_WDT))), U32(BFLB_VAL_CS_1K))

\* reg_val &= ~BFLB_MASK_TCDR; reg_val |= BFLB_VAL_TCDR
ProbeDividerVal(reg_val) ==
    Or32(And32(reg_val, Not32(BFLB_MASK_TCDR)), BFLB_VAL_TCDR)

\* wdd->timeout, max_timeout, min_timeout as probe leaves them;
\* watchdog_init_timeout keeps the valid default
ProbeWdd ==
    [timeout     |-> U32(BFLB_DEFAULT_TIMEOUT),
     max_timeout |-> U32(BFLB_MAX_SECS),
     min_timeout |-> U32(1)]

bflb_wdt_probe(io) ==
    LET w   == ProbeWdd
        \* Set to reboot on watchdog, disable until we start
        io1 == bflb_unlock_watchdog(io)
        v1  == readl_val(io1, BFLB_REG_WMER)
        io2 == writel(readl(io1, BFLB_REG_WMER), ProbeModeVal(v1), BFLB_REG_WMER)
        \* Set to 1K per second clock
        v2  == readl_val(io2, BFLB_REG_TCCR)
        io3 == writel(readl(io2, BFLB_REG_TCCR), ProbeClockVal(v2), BFLB_REG_TCCR)
        \* Max out divider
        v3  == readl_val(io3, BFLB_REG_TCDR)
        io4 == writel(readl(io3, BFLB_REG_TCDR), ProbeDividerVal(v3), BFLB_REG_TCDR)
        \* Set last valid timeout value
        io5 == bflb_wdt_update_timeout_reg(io4, w)
    IN  [io |-> io5, wdd |-> w, ret |-> U32(0)]

----------------------------------------------------------------------------
(* Bounds and inputs                                                       *)

\* the elapsed counter is followed up to this value
MaxTicks == 5

\* register contents the boot firmware may leave behind
ModeSeeds    == {U32(0), U32(1), U32(3), <<65535, 65533>>}
PingSeeds    == {U32(0), U32(4)}
ClockSeeds   == {U32(0), U32(3840 + 255)}
DividerSeeds == {U32(0), <<4660, 22136>>}
CounterSeeds == {U32(0), U32(65532)}
KeySeeds     == {"locked", "open"}

\* timeouts a caller may request
Timeouts ==
    {U32(0), U32(1), U32(60), U32(16383), U32(16384), U32(20000),
     <<16384, 0>>, <<65535, 65535>>}

\* callers that may be inside the driver at once
Callers == {1, 2}

\* a caller that is in no operation
IdleCaller ==
    [op |-> "idle", pc |-> 0, reg_val |-> U32(0), disturbed |-> FALSE]

----------------------------------------------------------------------------
(* The state machine                                                       *)

Init ==
    /\ \E m \in ModeSeeds, p \in PingSeeds, c \in ClockSeeds,
          d \in DividerSeeds, t \in CounterSeeds :
          regs = [r \in Registers |->
                    IF r = BFLB_REG_WMER THEN m
                    ELSE IF r = BFLB_REG_WCR THEN p
                    ELSE IF r = BFLB_REG_TCCR THEN c
                    ELSE IF r = BFLB_REG_TCDR THEN d
                    ELSE IF r = BFLB_REG_WVR THEN t
                    ELSE U32(0)]
    /\ key \in KeySeeds
    \* devm_kzalloc zeroes the device structure
    /\ wdd = [timeout |-> U32(0), max_timeout |-> U32(0), min_timeout |-> U32(0)]
    /\ phase = "Unconfigured"
    /\ lastOp = "none"
    /\ arg = U32(0)
    /\ ret = U32(0)
    /\ trace = <<>>
    /\ resetFired = FALSE
    /\ procs = [p \in Callers |-> IdleCaller]
    /\ serialised = TRUE
    /\ lostWrite = FALSE

\* the effect of a completed handler on the state
Done(name, a, out, ph) ==
    /\ regs' = out.io.regs
    /\ key' = out.io.key
    /\ trace' = out.io.trace
    /\ wdd' = out.wdd
    /\ ret' = out.ret
    /\ arg' = a
    /\ lastOp' = name
    /\ phase' = ph
    /\ UNCHANGED resetFired
    /\ UNCHANGED concVars

Probe ==
    /\ phase = "Unconfigured"
    /\ Done("probe", U32(0), bflb_wdt_probe(IO), "Stopped")

Start ==
    /\ phase /= "Unconfigured"
    /\ Done("start", U32(0), bflb_wdt_start(IO, wdd), "Running")

Stop ==
    /\ phase /= "Unconfigured"
    /\ Done("stop", U32(0), bflb_wdt_stop(IO, wdd), "Stopped")

Ping ==
    /\ phase /= "Unconfigured"
    /\ Done("ping", U32(0), bflb_wdt_ping(IO, wdd), phase)

SetTimeout ==
    /\ phase /= "Unconfigured"
    /\ \E t \in Timeouts :
          Done("set_timeout", t, bflb_wdt_set_timeout(IO, wdd, t), phase)

GetTimeLeft ==
    /\ phase /= "Unconfigured"
    /\ Done("get_timeleft", U32(0), bflb_wdt_timeleft(IO, wdd), phase)

EnableBit(r) == Lo(r[BFLB_REG_WMER]) % 2 = 1

\* The hardware counts one tick; an enabled watchdog whose counter reaches
\* the match value resets the device.
Tick ==
    /\ Lo(regs[BFLB_REG_WVR]) /= MaxTicks
    /\ LET n == (Lo(regs[BFLB_REG_WVR]) + 1) % Half
       IN  /\ regs' = [regs EXCEPT ![BFLB_REG_WVR] = U32(n)]
           /\ resetFired' =
                (resetFired \/ (EnableBit(regs) /\ U32(n) = regs[BFLB_REG_WMR]))
    /\ lastOp' = "tick"
    /\ trace' = <<>>
    /\ arg' = U32(0)
    /\ ret' = U32(0)
    /\ UNCHANGED <<key, wdd, phase>>
    /\ UNCHANGED concVars

Next ==
    \/ Probe
    \/ Start
    \/ Stop
    \/ Ping
    \/ SetTimeout
    \/ GetTimeLeft
    \/ Tick

Spec == Init /\ [][Next]_vars

----------------------------------------------------------------------------
(* The handlers one register access at a time, for callers that overlap.   *)
(* The driver takes no lock: an operation of one caller may be anywhere    *)
(* between two of its accesses while another caller runs.                  *)

\* timeouts the overlapping callers request
ConcTimeouts == {U32(1), U32(20000)}

SteadyOps == {"start", "stop", "ping", "set_timeout"}

\* the two key writes of bflb_unlock_watchdog, in the order it issues them
UnlockWrites == bflb_unlock_watchdog(IO).trace

\* the register a read-modify-write handler works on
TargetReg(op) == IF op = "ping" THEN BFLB_REG_WCR ELSE BFLB_REG_WMER

\* the value a read-modify-write handler writes back
NewVal(op, reg_val) ==
    IF op = "ping" THEN PingVal(reg_val)
    ELSE IF op = "start" THEN StartVal(reg_val)
    ELSE StopVal(reg_val)

\* the index of the last access of an operation
LastPc(op) == IF op = "set_timeout" THEN 3 ELSE 4

\* a caller has issued its first key write and not yet its protected write
InFlight(pr) == pr.op /= "idle" /\ pr.pc >= 2

\* the callers after caller p has written a key or a protected register:
\* every other caller in flight has had a write of p between its accesses
Disturb(ps, p) ==
    [q \in Callers |->
        IF q /= p /\ InFlight(ps[q])
        THEN [ps[q] EXCEPT !.disturbed = TRUE]
        ELSE ps[q]]

\* the external watchdog core lets one caller in at a time when it serialises
MayEnter(p) ==
    serialised => \A q \in Callers \ {p} : procs[q].op = "idle"

ConcInit ==
    /\ \E m \in {U32(0), U32(1)} :
          LET io0 == [regs  |-> [r \in Registers |->
                                   IF r = BFLB_REG_WMER THEN m ELSE U32(0)],
                      key   |-> "locked",
                      trace |-> <<>>]
              out == bflb_wdt_probe(io0)
          IN  /\ regs = out.io.regs
              /\ key = out.io.key
              /\ wdd = out.wdd
    /\ phase = "Stopped"
    /\ lastOp = "probe"
    /\ arg = U32(0)
    /\ ret = U32(0)
    /\ trace = <<>>
    /\ resetFired = FALSE
    /\ procs = [p \in Callers |-> IdleCaller]
    /\ serialised \in BOOLEAN
    /\ lostWrite = FALSE

\* a caller enters an operation; set_timeout stores the clamped timeout
\* before its first register access
Call(p) ==
    /\ procs[p].op = "idle"
    /\ MayEnter(p)
    /\ \E op \in SteadyOps, t \in ConcTimeouts :
          /\ procs' = [procs EXCEPT ![p] =
                         [@ EXCEPT !.op = op, !.pc = 1, !.disturbed = FALSE]]
          /\ wdd' = IF op = "set_timeout"
                    THEN [wdd EXCEPT !.timeout = ClampTimeout(t, wdd)]
                    ELSE wdd
    /\ UNCHANGED <<regs, key, phase, lastOp, arg, ret, trace, resetFired,
                   serialised, lostWrite>>

\* one of the two key writes of a caller's unlock
StepKey(p) ==
    /\ procs[p].op /= "idle"
    /\ procs[p].pc \in {1, 2}
    /\ LET e   == UnlockWrites[procs[p].pc]
           out == writew(IO, e.val, e.reg)
       IN  /\ regs' = out.regs
           /\ key' = out.key
    /\ procs' = Disturb([procs EXCEPT ![p].pc = @ + 1], p)
    /\ UNCHANGED <<wdd, phase, lastOp, arg, ret, trace, resetFired,
                   serialised, lostWrite>>

\* reg_val = readl(...) of start, stop and ping
StepLoad(p) ==
    /\ procs[p].op \in {"start", "stop", "ping"}
    /\ procs[p].pc = 3
    /\ procs' = [procs EXCEPT
                   ![p].reg_val = readl_val(IO, TargetReg(procs[p].op)),
                   ![p].pc = 4]
    /\ UNCHANGED <<regs, key, wdd, phase, lastOp, arg, ret, trace,
                   resetFired, serialised, lostWrite>>

\* the protected write that ends an operation
StepStore(p) ==
    /\ procs[p].op /= "idle"
    /\ procs[p].pc = LastPc(procs[p].op)
    /\ LET op  == procs[p].op
           out == IF op = "set_timeout"
                  THEN writew(IO, TimeoutTicks(wdd), BFLB_REG_WMR)
                  ELSE writel(IO, NewVal(op, procs[p].reg_val), TargetReg(op))
       IN  /\ regs' = out.regs
           /\ key' = out.key
           /\ lostWrite' = (lostWrite \/ key /= "open")
           /\ phase' = IF op = "start" THEN "Running"
                       ELSE IF op = "stop" THEN "Stopped"
                       ELSE phase
           /\ procs' = Disturb([procs EXCEPT
                                  ![p].op = "idle", ![p].pc = 0,
                                  ![p].reg_val = U32(0)], p)
    /\ UNCHANGED <<wdd, lastOp, arg, ret, trace, resetFired, serialised>>

ConcNext ==
    \E p \in Callers :
        \/ Call(p)
        \/ StepKey(p)
        \/ StepLoad(p)
        \/ StepStore(p)

ConcSpec == ConcInit /\ [][ConcNext]_vars

----------------------------------------------------------------------------
(* GetTimeLeft over every value the 16-bit elapsed counter can hold        *)

TimeLeftInit ==
    /\ \E n \in 0..(Half - 1) :
          LET io0 == [regs  |-> [r \in Registers |-> U32(0)],
                      key   |-> "locked",
                      trace |-> <<>>]
              out == bflb_wdt_probe(io0)
          IN  /\ regs = [out.io.regs EXCEPT ![BFLB_REG_WVR] = U32(n)]
              /\ key = out.io.key
              /\ wdd = out.wdd
    /\ phase = "Stopped"
    /\ lastOp = "probe"
    /\ arg = U32(0)
    /\ ret = U32(0)
    /\ trace = <<>>
    /\ resetFired = FALSE
    /\ procs = [p \in Callers |-> IdleCaller]
    /\ serialised = TRUE
    /\ lostWrite = FALSE

TimeLeftSpec == TimeLeftInit /\ [][GetTimeLeft]_vars

----------------------------------------------------------------------------
(* Reading the access log                                                  *)

IsWrite(e, reg) == e.op = "write" /\ e.reg = reg
IsRead(e, reg)  == e.op = "read" /\ e.reg = reg
IsProtectedWrite(e) == e.op = "write" /\ e.reg \in ProtectedRegs
IsKeyA(e) == IsWrite(e, BFLB_REG_WFAR) /\ e.val = <<0, 47802>> /\ e.width = 16
IsKeyB(e) == IsWrite(e, BFLB_REG_WSAR) /\ e.val = <<0, 60176>> /\ e.width = 16

\* access i of the log follows a complete unlock with no protected write
\* between that unlock and it
PrecededByUnlock(tr, i) ==
    \E j \in 1..(i - 2) :
        /\ IsKeyA(tr[j])
        /\ IsKeyB(tr[j + 1])
        /\ \A k \in (j + 2)..(i - 1) : ~IsProtectedWrite(tr[k])

Configured == phase /= "Unconfigured"

ResetIntBit(r) == (Lo(r[BFLB_REG_WMER]) \div 2) % 2 = 1

\* the smaller of two words, by unsigned comparison of the halves
Min32(x, y) ==
    IF Hi(x) < Hi(y) \/ (Hi(x) = Hi(y) /\ Lo(x) <= Lo(y)) THEN x ELSE y

----------------------------------------------------------------------------
(* C1: every write to a protected register (mode 0x64, match 0x68, ping    *)
(* 0x98, timer control 0x00, pre-divider 0xBC) is preceded, within the     *)
(* same operation, by the unlock sequence with no other protected write    *)
(* in between, so no protected write is issued while the hardware is       *)
(* locked.                                                                 *)
C1_ProtectedWritesUnlocked ==
    \A i \in 1..Len(trace) :
        IsProtectedWrite(trace[i]) =>
            PrecededByUnlock(trace, i) /\ trace[i].open

(* C2: after SetTimeout(t) the current timeout is min(t, max_timeout) with *)
(* max_timeout = 16383 and the match register holds current_timeout * 4    *)
(* masked to 16 bits; SetTimeout(60) leaves 240 and SetTimeout(20000)      *)
(* leaves timeout 16383 and match 65532.                                   *)
C2_SetTimeoutClampsAndProgramsMatch ==
    lastOp = "set_timeout" =>
        /\ wdd.max_timeout = <<0, 16383>>
        /\ wdd.timeout = Min32(arg, <<0, 16383>>)
        /\ regs[BFLB_REG_WMR] = <<0, (Lo(wdd.timeout) * 4) % 65536>>
        /\ (arg = <<0, 60>> => regs[BFLB_REG_WMR] = <<0, 240>>)
        /\ (arg = <<0, 20000>> =>
                wdd.timeout = <<0, 16383>> /\ regs[BFLB_REG_WMR] = <<0, 65532>>)

C2_Witness ==
    /\ lastOp = "set_timeout"
    /\ arg = <<0, 20000>>
    /\ wdd.timeout = <<0, 16383>>
    /\ regs[BFLB_REG_WMR] = <<0, 65532>>

(* C3: while the controller is Stopped (from Initialize to the first       *)
(* Start, and from every Stop to the next Start) the enable bit of the     *)
(* mode register is clear and no watchdog reset occurs, whatever time      *)
(* elapses and whatever Ping/SetTimeout/GetTimeLeft calls are made.        *)
C3_NoResetWhileStopped ==
    [][ /\ (phase' = "Stopped" => ~EnableBit(regs'))
        /\ (phase = "Stopped" /\ ~resetFired => ~resetFired') ]_vars

C3_Witness ==
    /\ phase = "Stopped"
    /\ lastOp = "tick"
    /\ regs[BFLB_REG_WVR] = regs[BFLB_REG_WMR]
    /\ ~EnableBit(regs)
    /\ ~resetFired

(* C4: after Initialize the reset-interrupt-enable bit (bit 1 of the mode  *)
(* register) is set in every reachable state; a Stop (after a Start)       *)
(* leaves the enable bit clear and the reset-interrupt-enable bit set.     *)
C4_ResetIntEnableKept ==
    /\ Configured => ResetIntBit(regs)
    /\ lastOp = "stop" => ~EnableBit(regs) /\ ResetIntBit(regs)

C4_Witness ==
    /\ lastOp = "stop"
    /\ Len(trace) = 4
    /\ IsRead(trace[3], BFLB_REG_WMER)
    /\ Lo(trace[3].val) % 2 = 1
    /\ ~EnableBit(regs)
    /\ ResetIntBit(regs)

(* C5: when Initialize completes the controller is Stopped; whatever the   *)
(* mode register held, its enable bit is clear, its reset-interrupt-enable *)
(* bit is set and its other bits are as read; current_timeout is 60,       *)
(* min_timeout 1, max_timeout 16383, and the match register holds 240.     *)
C5_InitializedState ==
    lastOp = "probe" =>
        /\ phase = "Stopped"
        /\ IsRead(trace[3], BFLB_REG_WMER)
        /\ LET v == trace[3].val
           IN  regs[BFLB_REG_WMER] = <<Hi(v), Lo(v) - (Lo(v) % 4) + 2>>
        /\ ~EnableBit(regs)
        /\ ResetIntBit(regs)
        /\ wdd.timeout = <<0, 60>>
        /\ wdd.min_timeout = <<0, 1>>
        /\ wdd.max_timeout = <<0, 16383>>
        /\ regs[BFLB_REG_WMR] = <<0, 240>>

C5_Witness ==
    /\ lastOp = "probe"
    /\ trace[3].val = <<65535, 65533>>
    /\ regs[BFLB_REG_WMER] = <<65535, 65534>>
    /\ regs[BFLB_REG_WMR] = <<0, 240>>

(* C6: every unlock is exactly two writes in order, 0xBABA to unlock       *)
(* register A (0x9C) then 0xEB10 to unlock register B (0xA0), with no      *)
(* other register access between them; B is never written before A.        *)
C6_UnlockOrder ==
    \A i \in 1..Len(trace) :
        /\ IsWrite(trace[i], BFLB_REG_WFAR) =>
              /\ IsKeyA(trace[i])
              /\ i < Len(trace)
              /\ IsKeyB(trace[i + 1])
        /\ IsWrite(trace[i], BFLB_REG_WSAR) =>
              /\ IsKeyB(trace[i])
              /\ i > 1
              /\ IsKeyA(trace[i - 1])

C6_Witness ==
    /\ lastOp = "start"
    /\ Len(trace) = 4
    /\ IsKeyA(trace[1])
    /\ IsKeyB(trace[2])
    /\ trace[3].open

\* the accesses of one ping: unlock, read of 0x98, write-back with bit 0 set
PingShape ==
    /\ Len(trace) = 4
    /\ IsKeyA(trace[1])
    /\ IsKeyB(trace[2])
    /\ IsRead(trace[3], BFLB_REG_WCR)
    /\ IsWrite(trace[4], BFLB_REG_WCR)
    /\ LET v == trace[3].val
       IN  /\ trace[4].val = <<Hi(v), Lo(v) - (Lo(v) % 2) + 1>>
           /\ regs[BFLB_REG_WCR] = trace[4].val
    /\ regs[BFLB_REG_WVR] = <<0, 0>>

(* C7: Ping, in either state, performs unlock, reads the reset/ping        *)
(* register and writes it back with bit 0 set and all other bits as read,  *)
(* so the elapsed counter restarts from zero; it changes neither the       *)
(* logical state (nor the enable bit) nor the configured timeout.          *)
C7_PingUnguarded ==
    [][ lastOp' = "ping" =>
          /\ PingShape'
          /\ trace'[3].val = regs[BFLB_REG_WCR]
          /\ phase' = phase
          /\ wdd' = wdd
          /\ regs'[BFLB_REG_WMER] = regs[BFLB_REG_WMER]
          /\ regs'[BFLB_REG_WMR] = regs[BFLB_REG_WMR] ]_vars

C7_Witness ==
    /\ lastOp = "ping"
    /\ phase = "Stopped"
    /\ trace[3].val = <<0, 4>>
    /\ regs[BFLB_REG_WCR] = <<0, 5>>
    /\ regs[BFLB_REG_WVR] = <<0, 0>>

(* C8: GetTimeLeft returns max_timeout - floor(elapsed_ticks / 4) with     *)
(* elapsed_ticks the 16-bit value read from the counter register (0x6C);   *)
(* the result does not depend on current_timeout: with elapsed ticks 0 it  *)
(* is 16383 even when current_timeout < max_timeout.                       *)
C8_TimeLeftAgainstMax ==
    lastOp = "get_timeleft" =>
        /\ Len(trace) = 1
        /\ IsRead(trace[1], BFLB_REG_WVR)
        /\ trace[1].width = 16
        /\ trace[1].val = regs[BFLB_REG_WVR]
        /\ ret = <<0, 16383 - (Lo(trace[1].val) \div 4)>>
        /\ (trace[1].val = <<0, 0>> => ret = <<0, 16383>>)

C8_Witness ==
    /\ lastOp = "get_timeleft"
    /\ trace[1].val = <<0, 0>>
    /\ wdd.timeout = <<0, 60>>
    /\ ret = <<0, 16383>>

(* C9 as stated: SetTimeout(t) returns to its caller the accepted value    *)
(* min(t, max_timeout).                                                    *)
C9_ReturnsAcceptedValue ==
    lastOp = "set_timeout" => ret = Min32(arg, <<0, 16383>>)

(* C9 amended: SetTimeout(t) returns 0 for every t and leaves the          *)
(* accepted value min(t, max_timeout) in current_timeout.                  *)
C9_ReturnsZeroStoresAccepted ==
    lastOp = "set_timeout" =>
        /\ ret = <<0, 0>>
        /\ wdd.timeout = Min32(arg, wdd.max_timeout)

C9_Witness ==
    /\ lastOp = "set_timeout"
    /\ arg = <<0, 16384>>
    /\ ret = <<0, 0>>
    /\ wdd.timeout = <<0, 16383>>

\* 1 <= current_timeout <= max_timeout
TimeoutInRange(w) ==
    /\ ~(Hi(w.timeout) = 0 /\ Lo(w.timeout) = 0)
    /\ Min32(w.timeout, w.max_timeout) = w.timeout

(* C10 as stated: after Initialize 1 <= current_timeout <= max_timeout in  *)
(* every reachable state, for SetTimeout with any requested value, and     *)
(* current_timeout is changed by no operation other than SetTimeout.       *)
C10_TimeoutAlwaysInRange ==
    [][ /\ (phase' /= "Unconfigured" => TimeoutInRange(wdd'))
        /\ (Configured /\ wdd'.timeout /= wdd.timeout =>
                lastOp' = "set_timeout") ]_vars

(* C10 amended: after Initialize current_timeout <= max_timeout in every   *)
(* reachable state; it is >= 1 unless SetTimeout(0) was requested, which   *)
(* stores 0 (the code applies no lower bound); and current_timeout is      *)
(* changed by no operation other than SetTimeout.                          *)
C10_TimeoutBoundedAbove ==
    [][ /\ (phase' /= "Unconfigured" =>
                Min32(wdd'.timeout, wdd'.max_timeout) = wdd'.timeout)
        /\ (phase' /= "Unconfigured" /\ wdd'.timeout = <<0, 0>> =>
                \/ (Configured /\ wdd.timeout = <<0, 0>>)
                \/ (lastOp' = "set_timeout" /\ arg' = <<0, 0>>))
        /\ (Configured /\ wdd'.timeout /= wdd.timeout =>
                lastOp' = "set_timeout") ]_vars

C10_Witness ==
    /\ lastOp = "set_timeout"
    /\ arg = <<65535, 65535>>
    /\ wdd.timeout = <<0, 16383>>
    /\ wdd.timeout = wdd.max_timeout

\* no caller's unlock-then-write has had a write of another caller inside it
\* and no protected write was lost to a relock
NotInterleaved ==
    /\ \A p \in Callers : ~procs[p].disturbed
    /\ ~lostWrite

(* C11 as stated: when two of Start, Stop, Ping, SetTimeout are invoked    *)
(* concurrently by different callers, no unlock write or protected write   *)
(* of one operation occurs between the first unlock write and the          *)
(* protected write of the other, so no protected write is lost to a        *)
(* relock.                                                                 *)
C11_NeverInterleaved == NotInterleaved

(* C11 amended: the controller takes no lock of its own; when the external *)
(* caller serialises Start, Stop, Ping and SetTimeout (one call run to     *)
(* completion before the next begins) no write of one operation occurs     *)
(* between the first unlock write and the protected write of another and   *)
(* no protected write is lost to a relock.                                 *)
C11_SerialisedNotInterleaved == serialised => NotInterleaved

C11_Witness ==
    /\ serialised
    /\ phase = "Running"
    /\ EnableBit(regs)
    /\ regs[BFLB_REG_WMR] = <<0, 4>>
    /\ procs[1].op = "idle"
    /\ procs[2].op = "stop"
    /\ procs[2].pc = 4
    /\ key = "open"

(* C12: Start is idempotent and Stop is a no-op when already Stopped: a    *)
(* Start directly after a Start, and a Stop directly after a Stop, leave   *)
(* the mode register exactly as the first one left it.                     *)
C12_StartStopIdempotent ==
    [][ /\ (lastOp = "start" /\ lastOp' = "start" =>
                regs'[BFLB_REG_WMER] = regs[BFLB_REG_WMER])
        /\ (lastOp \in {"stop", "probe"} /\ lastOp' = "stop" =>
                regs'[BFLB_REG_WMER] = regs[BFLB_REG_WMER]) ]_vars

C12_Witness ==
    /\ lastOp = "start"
    /\ Len(trace) = 4
    /\ IsRead(trace[3], BFLB_REG_WMER)
    /\ trace[3].val = <<65535, 65535>>
    /\ IsWrite(trace[4], BFLB_REG_WMER)
    /\ trace[4].open
    /\ regs[BFLB_REG_WMER] = <<65535, 65535>>

(* C13: Start, Stop, Ping and SetTimeout report success for every input    *)
(* and in every state; a SetTimeout request above the maximum is resolved  *)
(* by clamping to max_timeout, never by an error result or by leaving the  *)
(* timeout unchanged.                                                      *)
C13_NoFailureOutcome ==
    /\ lastOp \in {"start", "stop", "ping", "set_timeout"} => ret = <<0, 0>>
    /\ lastOp = "set_timeout" /\ Min32(arg, wdd.max_timeout) /= arg =>
          wdd.timeout = wdd.max_timeout

C13_Witness ==
    /\ lastOp = "set_timeout"
    /\ phase = "Running"
    /\ arg = <<16384, 0>>
    /\ ret = <<0, 0>>
    /\ wdd.timeout = <<0, 16383>>

(* C14: after Initialize the enable bit of the mode register is set if     *)
(* and only if the most recent Start/Stop call was Start, and clear if     *)
(* there was none or the most recent was Stop.                             *)
C14_EnableTracksState ==
    Configured => (EnableBit(regs) <=> phase = "Running")

C14_Witness ==
    /\ phase = "Running"
    /\ lastOp = "get_timeleft"
    /\ EnableBit(regs)
    /\ regs[BFLB_REG_WMER] = <<0, 3>>

(* C15: in every state after Initialize the match register equals          *)
(* current_timeout * 4 with no truncation: current_timeout * 4 <= 65535.   *)
C15_MatchExactProjection ==
    Configured =>
        /\ Hi(wdd.timeout) = 0
        /\ Lo(wdd.timeout) * 4 <= 65535
        /\ regs[BFLB_REG_WMR] = <<0, Lo(wdd.timeout) * 4>>

C15_Witness ==
    /\ lastOp = "set_timeout"
    /\ arg = <<0, 16384>>
    /\ wdd.timeout = <<0, 16383>>
    /\ regs[BFLB_REG_WMR] = <<0, 65532>>

(* C16: SetTimeout(t) called while Running leaves the enable bit set and   *)
(* the state Running, and the match register already holds                 *)
(* min(t, max_timeout) * 4 when it completes.                              *)
C16_SetTimeoutWhileRunning ==
    [][ lastOp' = "set_timeout" /\ phase = "Running" =>
          /\ phase' = "Running"
          /\ EnableBit(regs')
          /\ regs'[BFLB_REG_WMER] = regs[BFLB_REG_WMER]
          /\ regs'[BFLB_REG_WMR] =
                <<0, (Lo(Min32(arg', <<0, 16383>>)) * 4) % 65536>> ]_vars

C16_Witness ==
    /\ lastOp = "set_timeout"
    /\ phase = "Running"
    /\ EnableBit(regs)
    /\ arg = <<0, 1>>
    /\ regs[BFLB_REG_WMR] = <<0, 4>>

(* C17: when Initialize completes the clock-select field (mask 0xF00 of    *)
(* register 0x00) holds 0x200 and the top byte of the pre-divider register *)
(* (0xBC) is 0xFF, all other bits of both being as read, also when the     *)
(* register block relocks after each protected write; the two registers    *)
(* are written during Initialize and by no later operation.                *)
C17_ClockConfigured ==
    /\ lastOp = "probe" =>
          /\ (Lo(regs[BFLB_REG_TCCR]) \div 256) % 16 = 2
          /\ Hi(regs[BFLB_REG_TCDR]) \div 256 = 255
          /\ IsRead(trace[5], BFLB_REG_TCCR)
          /\ Hi(regs[BFLB_REG_TCCR]) = Hi(trace[5].val)
          /\ Lo(regs[BFLB_REG_TCCR]) % 256 = Lo(trace[5].val) % 256
          /\ Lo(regs[BFLB_REG_TCCR]) \div 4096 = Lo(trace[5].val) \div 4096
          /\ IsRead(trace[7], BFLB_REG_TCDR)
          /\ Hi(regs[BFLB_REG_TCDR]) % 256 = Hi(trace[7].val) % 256
          /\ Lo(regs[BFLB_REG_TCDR]) = Lo(trace[7].val)
    /\ lastOp \notin {"probe", "none"} =>
          \A i \in 1..Len(trace) :
              ~IsWrite(trace[i], BFLB_REG_TCCR) /\ ~IsWrite(trace[i], BFLB_REG_TCDR)

\* every write of the log goes to a key register or to the target register
WritesOnly(tr, target) ==
    \A i \in 1..Len(tr) :
        tr[i].op = "write" => tr[i].reg \in KeyRegs \cup {target}

\* the registers in `others` hold what they held
Kept(r1, r2, others) == \A r \in others : r2[r] = r1[r]

(* C18: each steady-state operation writes only the two unlock registers   *)
(* and its single target register and leaves everything else unchanged:    *)
(* Start and Stop write only the mode register and change only its bit 0;  *)
(* Ping writes only the reset/ping register; SetTimeout writes only the    *)
(* match register and current_timeout; GetTimeLeft performs one read of    *)
(* the counter register, no unlock and no write, and changes no state.     *)
C18_FrameOfEachOperation ==
    [][ /\ (lastOp' \in {"start", "stop"} =>
              /\ WritesOnly(trace', BFLB_REG_WMER)
              /\ Kept(regs, regs', Registers \ {BFLB_REG_WMER})
              /\ Hi(regs'[BFLB_REG_WMER]) = Hi(regs[BFLB_REG_WMER])
              /\ Lo(regs'[BFLB_REG_WMER]) \div 2 = Lo(regs[BFLB_REG_WMER]) \div 2
              /\ wdd' = wdd)
        /\ (lastOp' = "ping" =>
              /\ WritesOnly(trace', BFLB_REG_WCR)
              /\ Kept(regs, regs', Registers \ {BFLB_REG_WCR, BFLB_REG_WVR})
              /\ wdd' = wdd)
        /\ (lastOp' = "set_timeout" =>
              /\ WritesOnly(trace', BFLB_REG_WMR)
              /\ Kept(regs, regs', Registers \ {BFLB_REG_WMR})
              /\ wdd'.max_timeout = wdd.max_timeout
              /\ wdd'.min_timeout = wdd.min_timeout)
        /\ (lastOp' = "get_timeleft" =>
              /\ Len(trace') = 1
              /\ IsRead(trace'[1], BFLB_REG_WVR)
              /\ regs' = regs
              /\ key' = key
              /\ wdd' = wdd
              /\ phase' = phase) ]_vars

C18_Witness ==
    /\ lastOp = "get_timeleft"
    /\ Len(trace) = 1
    /\ phase = "Running"
    /\ key = "locked"
    /\ regs[BFLB_REG_WVR] = <<0, 65535>>

(* C19: GetTimeLeft never underflows: for every 16-bit value of the        *)
(* elapsed counter the unsigned subtraction max_timeout -                  *)
(* floor(elapsed_ticks / 4) yields a value in 0..16383.                    *)
C19_TimeLeftNoUnderflow ==
    lastOp = "get_timeleft" =>
        /\ Hi(ret) = 0
        /\ Lo(ret) <= 16383
        /\ Lo(ret) + (Lo(trace[1].val) \div 4) = 16383

C19_Witness ==
    /\ lastOp = "get_timeleft"
    /\ trace[1].val = <<0, 65535>>
    /\ ret = <<0, 0>>

====
